---------------------------- MODULE Spec2Model ----------------------------
(***************************************************************************)
(* Scheduling, timer and synchronisation core of the kernel under os/src.  *)
(*                                                                         *)
(* The ready queue (task/manager.rs), the timer heap (timer.rs) and the    *)
(* condition variable (sync/condvar.rs) are translated from their source.  *)
(* The processor slot, the blocking mutex and the semaphore are used by    *)
(* that source but their files are not part of the tree that was read;     *)
(* they follow the design document and are marked as such where defined.   *)
(***************************************************************************)
EXTENDS Integers, Sequences, FiniteSets, Bags, TLC

(***************************************************************************)
(* Bounds of the model.                                                    *)
(***************************************************************************)
NumTasks == 3      \* tasks 1..NumTasks
WordBits == 3      \* width of usize / isize in the model (64 on the target)
MaxMs == 3         \* the clock stops advancing after MaxMs milliseconds
MaxTimers == 3     \* timer entries pending or already fired in the timer harness
MaxOps == 4        \* add() calls the ready-queue harness issues

(***************************************************************************)
(* Program constants.                                                      *)
(***************************************************************************)
CLOCK_FREQ == 12500000
TICKS_PER_SEC == 100
MSEC_PER_SEC == 1000

Tasks == 1..NumTasks
None == 0

RECURSIVE Pow2(_)
Pow2(n) == IF n = 0 THEN 1 ELSE 2 * Pow2(n - 1)

WordMod == Pow2(WordBits)              \* usize values are 0 .. WordMod - 1
IsizeMin == 0 - Pow2(WordBits - 1)
IsizeMax == Pow2(WordBits - 1) - 1

\* `x as isize`: reinterpret the word as two's complement.
AsIsize(x) == IF x > IsizeMax THEN x - WordMod ELSE x

\* `-i` on isize overflows exactly for isize::MIN.
NegOverflows(i) == i = IsizeMin

\* `-i` without overflow checks wraps: -isize::MIN = isize::MIN.
WrappingNeg(i) == IF i = IsizeMin THEN IsizeMin ELSE 0 - i

SeqToSet(s) == {s[i] : i \in 1..Len(s)}

RemoveAt(s, i) == SubSeq(s, 1, i - 1) \o SubSeq(s, i + 1, Len(s))

(***************************************************************************)
(* State.                                                                  *)
(***************************************************************************)
VARIABLES
    ready_queue,      \* TASK_MANAGER.ready_queue, head first
    task_status,      \* task_status of every task control block
    timers,           \* TIMERS: bag of TimerCondVar records
    time,             \* the time register, in clock ticks
    overflow_checks,  \* build profile: TRUE when arithmetic overflow panics
    panicked,         \* the kernel has halted in a panic
    current,          \* PROCESSOR.current: a task, or None
    cpu,              \* the task whose kernel stack the hart executes on, or None (idle loop)
    pc,               \* where each task stands in the kernel path it is in
    holds,            \* tasks between a return from lock() and their unlock()
    mutex,            \* [kind, locked, wait_queue]; kind is "blocking" or "spin"
    sem,              \* [count, wait_queue]
    condvar,          \* [wait_queue]
    pid2pcb,          \* PID2PCB: the map from pid to process
    signals,          \* the signals pending on every task
    exit_code,        \* the exit code every task left, or None
    trap_cx,          \* every task's trap context: [ppn, sepc, x10]
    trap_local,       \* trap_handler's locals cx and result while a syscall is under way
    op,               \* the operation performed by the last step, with its result
    hist              \* what happened so far: tasks given to add(), results of fetch(),
                      \* downs that passed before the first up(), pids inserted and
                      \* removed, the saved pc each task trapped with

vars == <<ready_queue, task_status, timers, time, overflow_checks, panicked,
          current, cpu, pc, holds, mutex, sem, condvar, pid2pcb, signals,
          exit_code, trap_cx, trap_local, op, hist>>

proc_vars == <<pid2pcb, signals, exit_code, trap_cx, trap_local>>

kernel_vars == <<current, cpu, pc, holds, mutex, sem, condvar>>

(***************************************************************************)
(* task/manager.rs: TaskManager                                            *)
(***************************************************************************)
\* TaskManager::add: push_back
TaskManager_add(q, task) == Append(q, task)

\* A fetch that takes the tail of the queue (pop_back for pop_front).
TaskManager_fetch_back(q) ==
    IF q = <<>> THEN [ret |-> None, queue |-> q]
                ELSE [ret |-> q[Len(q)], queue |-> SubSeq(q, 1, Len(q) - 1)]

\* TaskManager::fetch: pop_front, None on an empty queue
TaskManager_fetch(q) ==
    IF q = <<>> THEN [ret |-> None, queue |-> q]
                ELSE [ret |-> Head(q), queue |-> Tail(q)]

\* TaskManager::remove: remove the first element identical to task, if any
TaskManager_remove(q, task) ==
    IF \E i \in 1..Len(q) : q[i] = task
    THEN LET id == CHOOSE i \in 1..Len(q) :
                       /\ q[i] = task
                       /\ \A j \in 1..(i - 1) : q[j] # task
         IN RemoveAt(q, id)
    ELSE q

\* add_task
add_task(q, task) == TaskManager_add(q, task)

\* fetch_task
fetch_task(q) == TaskManager_fetch(q)

\* remove_task
remove_task(q, task) == TaskManager_remove(q, task)

\* A wakeup that marks the task Ready and forgets to queue it.
wakeup_task_no_add(s, task) ==
    [task_status |-> [s.task_status EXCEPT ![task] = "Ready"],
     ready_queue |-> s.ready_queue]

\* A wakeup that queues the task and leaves its status as it was.
wakeup_task_no_status(s, task) ==
    [task_status |-> s.task_status,
     ready_queue |-> add_task(s.ready_queue, task)]

\* wakeup_task on the pair (task_status, ready_queue): the status becomes
\* Ready whatever it was, then the task is appended to the ready queue.
wakeup_task(s, task) ==
    [task_status |-> [s.task_status EXCEPT ![task] = "Ready"],
     ready_queue |-> add_task(s.ready_queue, task)]

\* wakeup_task applied to each task of a sequence, in order
RECURSIVE WakeAll(_, _)
WakeAll(s, seq) ==
    IF seq = <<>> THEN s ELSE WakeAll(wakeup_task(s, Head(seq)), Tail(seq))

Sched == [task_status |-> task_status, ready_queue |-> ready_queue]

(***************************************************************************)
(* task/manager.rs: PID2PCB                                                *)
(***************************************************************************)
\* BTreeMap::new
EmptyMap == [pid \in {} |-> None]

\* pid2process: map.get(&pid), the process registered under pid or None
pid2process(map, pid) == IF pid \in DOMAIN map THEN map[pid] ELSE None

\* insert_into_pid2process: BTreeMap::insert, which replaces an entry that
\* has the same pid
insert_into_pid2process(map, pid, process) ==
    [k \in DOMAIN map \cup {pid} |-> IF k = pid THEN process ELSE map[k]]

\* A removal that does nothing when the pid is not registered.
remove_from_pid2process_silent(map, pid) ==
    [map |-> [k \in DOMAIN map \ {pid} |-> map[k]], panics |-> FALSE]

\* remove_from_pid2process: map.remove(&pid), and a panic when it finds no
\* entry
remove_from_pid2process(map, pid) ==
    [map |-> [k \in DOMAIN map \ {pid} |-> map[k]],
     panics |-> pid \notin DOMAIN map]

(***************************************************************************)
(* timer.rs                                                                *)
(***************************************************************************)
\* get_time_ms
get_time_ms == time \div (CLOCK_FREQ \div MSEC_PER_SEC)

\* set_next_trigger: the value written to the timer compare register
set_next_trigger == time + CLOCK_FREQ \div TICKS_PER_SEC

TimerCondVar(expire_ms, task) == [expire_ms |-> expire_ms, task |-> task]

\* The value partial_cmp compares: -(expire_ms as isize), as the build without
\* overflow checks computes it.
TimerKey(expire_ms) == WrappingNeg(AsIsize(expire_ms))

\* partial_cmp / cmp: "Less", "Equal" or "Greater"
TimerCmp(x, y) ==
    IF TimerKey(x.expire_ms) < TimerKey(y.expire_ms) THEN "Less"
    ELSE IF TimerKey(x.expire_ms) = TimerKey(y.expire_ms) THEN "Equal"
    ELSE "Greater"

\* The comparison of x with y overflows when either negation does.
CmpOverflows(x, y) ==
    \/ NegOverflows(AsIsize(x.expire_ms))
    \/ NegOverflows(AsIsize(y.expire_ms))

\* BinaryHeap::peek: a greatest entry by cmp; entries that compare Equal
\* may come out in any order.
HeapPeek(h) ==
    {x \in BagToSet(h) : \A y \in BagToSet(h) : TimerCmp(x, y) # "Less"}

HeapPush(h, x) == h (+) SetToBag({x})

HeapPop(h, x) == h (-) SetToBag({x})

\* BinaryHeap::push compares the new entry with its parent as soon as the
\* heap is not empty; with overflow checks the first comparison involving an
\* entry whose negation overflows panics, so such an entry never shares the
\* heap with another one.
PushPanics(h, x) ==
    /\ overflow_checks
    /\ h # EmptyBag
    /\ \E y \in BagToSet(h) : CmpOverflows(x, y)

\* A remove_timer that stops at the first entry of the task it meets.
RemoveTimerHeap_first(h, task) ==
    IF \E x \in BagToSet(h) : x.task = task
    THEN h (-) SetToBag({CHOOSE x \in BagToSet(h) : x.task = task})
    ELSE h

\* remove_timer: drain, keep the entries of other tasks, put them back
RemoveTimerHeap(h, task) ==
    LET keep == {x \in BagToSet(h) : x.task # task}
    IN [x \in keep |-> CopiesIn(x, h)]

\* The while loop of check_timer: the sequences of entries it can pop from
\* heap h at time now_ms, in pop order.
RECURSIVE CheckTimerRuns(_, _)
CheckTimerRuns(h, now_ms) ==
    IF h = EmptyBag THEN {<<>>}
    ELSE UNION { IF x.expire_ms <= now_ms
                 THEN {<<x>> \o r : r \in CheckTimerRuns(HeapPop(h, x), now_ms)}
                 ELSE {<<>>}
                 : x \in HeapPeek(h) }

RECURSIVE PopAll(_, _)
PopAll(h, run) ==
    IF run = <<>> THEN h ELSE PopAll(HeapPop(h, Head(run)), Tail(run))

RunTasks(run) == [i \in 1..Len(run) |-> run[i].task]

(***************************************************************************)
(* Initial values shared by the specifications.                            *)
(***************************************************************************)
NoOp == [name |-> "none"]

\* The two implementations of the Mutex trait.
MutexKinds == {"blocking", "spin"}

\* MutexBlocking::new / MutexSpin::new
NewMutex(kind) == [kind |-> kind, locked |-> FALSE, wait_queue |-> <<>>]

\* Nothing has happened; the semaphore was created with count n.
NoHist(n) ==
    [added |-> <<>>, fetched |-> <<>>, sem_init |-> n, passes |-> 0,
     up_seen |-> FALSE,
     inserted |-> [pid \in Tasks |-> 0], removed |-> [pid \in Tasks |-> 0],
     ecall_sepc |-> [t \in Tasks |-> 0]]

\* A trap context: the physical page it lives in, the saved pc and register a0.
TrapContext(ppn, sepc, x10) == [ppn |-> ppn, sepc |-> sepc, x10 |-> x10]

\* trap_handler is not in a syscall.
NoLocal == [cx |-> None, result |-> None]

\* Every task is the only task of a process of its own, registered under the
\* task's number as pid; no signal is pending and no task has trapped yet.
InitProcesses ==
    /\ pid2pcb = [pid \in Tasks |-> pid]
    /\ signals = [t \in Tasks |-> {}]
    /\ exit_code = [t \in Tasks |-> <<>>]
    /\ trap_cx = [t \in Tasks |-> TrapContext(1, 0, 0)]
    /\ trap_local = [t \in Tasks |-> NoLocal]

InitKernelIdle ==
    /\ current = None
    /\ cpu = None
    /\ pc = [t \in Tasks |-> "user"]
    /\ holds = {}
    /\ mutex \in {NewMutex(k) : k \in MutexKinds}
    /\ sem = [count |-> 0, wait_queue |-> <<>>]
    /\ condvar = [wait_queue |-> <<>>]
    /\ InitProcesses

(***************************************************************************)
(* sync/up.rs cells.  Every shared structure sits in a UPIntrFreeCell; an  *)
(* operation is recorded with the sequence of cells it acquires and        *)
(* releases.  The cells are the ready queue (TASK_MANAGER), the pid        *)
(* registry (PID2PCB), the timer heap (TIMERS), the inner state of each    *)
(* task and the wait queue of the condition variable.                      *)
(***************************************************************************)
TASK_MANAGER == [kind |-> "TASK_MANAGER", of |-> None]

PID2PCB == [kind |-> "PID2PCB", of |-> None]

TIMERS == [kind |-> "TIMERS", of |-> None]

CondvarInner == [kind |-> "CondvarInner", of |-> None]

TaskInner(task) == [kind |-> "TaskControlBlockInner", of |-> task]

\* exclusive_access() / exclusive_session(): the cell is acquired, the code
\* that runs while the guard lives acquires and releases what it does, and
\* the cell is released when the guard is dropped.
exclusive_access(cell, inside) ==
    <<[a |-> "acquire", cell |-> cell]>> \o inside
        \o <<[a |-> "release", cell |-> cell]>>

\* add_task, fetch_task, remove_task: one access to TASK_MANAGER
add_task_cells == exclusive_access(TASK_MANAGER, <<>>)

fetch_task_cells == exclusive_access(TASK_MANAGER, <<>>)

remove_task_cells == exclusive_access(TASK_MANAGER, <<>>)

\* A wakeup_task that calls add_task before it drops task_inner.
wakeup_task_cells_nested(task) == exclusive_access(TaskInner(task), add_task_cells)

\* wakeup_task: task_inner is taken, written and dropped, then add_task
wakeup_task_cells(task) == exclusive_access(TaskInner(task), <<>>) \o add_task_cells

RECURSIVE WakeAllCells(_)
WakeAllCells(seq) ==
    IF seq = <<>> THEN <<>>
    ELSE wakeup_task_cells(Head(seq)) \o WakeAllCells(Tail(seq))

\* pid2process, insert_into_pid2process, remove_from_pid2process
pid2process_cells == exclusive_access(PID2PCB, <<>>)

\* add_timer, remove_timer: one access to TIMERS
add_timer_cells == exclusive_access(TIMERS, <<>>)

remove_timer_cells == exclusive_access(TIMERS, <<>>)

\* check_timer: the wakeups happen inside TIMERS.exclusive_session
check_timer_cells(run) == exclusive_access(TIMERS, WakeAllCells(RunTasks(run)))

\* Condvar::signal: the guard of inner lives to the end of the function, so
\* wakeup_task runs while it is held
Condvar_signal_cells(cv) ==
    exclusive_access(CondvarInner,
                     IF cv.wait_queue # <<>>
                     THEN wakeup_task_cells(Head(cv.wait_queue))
                     ELSE <<>>)

\* Condvar::wait_no_sched, Condvar::wait_with_mutex: the session that
\* enqueues the caller
Condvar_wait_cells == exclusive_access(CondvarInner, <<>>)

(***************************************************************************)
(* Ready-queue harness: any sequence of add / fetch / remove calls on an   *)
(* initially empty TaskManager.                                            *)
(***************************************************************************)
InitTaskManager ==
    /\ ready_queue = <<>>
    /\ task_status = [t \in Tasks |-> "Ready"]
    /\ timers = EmptyBag
    /\ time = 0
    /\ overflow_checks = FALSE
    /\ panicked = FALSE
    /\ InitKernelIdle
    /\ mutex.kind = "blocking"
    /\ op = NoOp
    /\ hist = NoHist(sem.count)

CallAdd(task) ==
    /\ Len(hist.added) < MaxOps
    /\ ready_queue' = add_task(ready_queue, task)
    /\ hist' = [hist EXCEPT !.added = Append(@, task)]
    /\ op' = [name |-> "add", task |-> task, cells |-> add_task_cells]
    /\ UNCHANGED <<task_status, timers, time, overflow_checks, panicked, kernel_vars>>
    /\ UNCHANGED proc_vars

CallFetch ==
    LET r == fetch_task(ready_queue) IN
    /\ ready_queue' = r.queue
    /\ hist' = IF r.ret = None THEN hist
               ELSE [hist EXCEPT !.fetched = Append(@, r.ret)]
    /\ op' = [name |-> "fetch", ret |-> r.ret, cells |-> fetch_task_cells]
    /\ UNCHANGED <<task_status, timers, time, overflow_checks, panicked, kernel_vars>>
    /\ UNCHANGED proc_vars

CallRemove(task) ==
    /\ ready_queue' = remove_task(ready_queue, task)
    /\ op' = [name |-> "remove", task |-> task, cells |-> remove_task_cells]
    /\ UNCHANGED <<task_status, timers, time, overflow_checks, panicked, kernel_vars, hist>>
    /\ UNCHANGED proc_vars

NextTaskManager ==
    \/ \E task \in Tasks : CallAdd(task)
    \/ CallFetch
    \/ \E task \in Tasks : CallRemove(task)

SpecTaskManager == InitTaskManager /\ [][NextTaskManager]_vars

(***************************************************************************)
(* Pid-registry harness: any sequence of insert_into_pid2process,          *)
(* remove_from_pid2process and pid2process calls on an initially empty     *)
(* registry, until one of them panics.                                     *)
(***************************************************************************)
InitPid ==
    /\ ready_queue = <<>>
    /\ task_status = [t \in Tasks |-> "Ready"]
    /\ timers = EmptyBag
    /\ time = 0
    /\ overflow_checks = FALSE
    /\ panicked = FALSE
    /\ current = None
    /\ cpu = None
    /\ pc = [t \in Tasks |-> "user"]
    /\ holds = {}
    /\ mutex = NewMutex("blocking")
    /\ sem = [count |-> 0, wait_queue |-> <<>>]
    /\ condvar = [wait_queue |-> <<>>]
    /\ pid2pcb = EmptyMap
    /\ signals = [t \in Tasks |-> {}]
    /\ exit_code = [t \in Tasks |-> <<>>]
    /\ trap_cx = [t \in Tasks |-> TrapContext(1, 0, 0)]
    /\ trap_local = [t \in Tasks |-> NoLocal]
    /\ op = NoOp
    /\ hist = NoHist(sem.count)

CallInsertPid(pid, process) ==
    /\ ~panicked
    /\ hist.inserted[pid] < MaxOps \div 2
    /\ pid2pcb' = insert_into_pid2process(pid2pcb, pid, process)
    /\ hist' = [hist EXCEPT !.inserted[pid] = @ + 1]
    /\ op' = [name |-> "insert_into_pid2process", pid |-> pid, process |-> process,
              cells |-> pid2process_cells]
    /\ UNCHANGED <<ready_queue, task_status, timers, time, overflow_checks, panicked, kernel_vars, signals,
                   exit_code, trap_cx, trap_local>>

CallRemovePid(pid) ==
    /\ ~panicked
    /\ LET r == remove_from_pid2process(pid2pcb, pid) IN
         /\ pid2pcb' = r.map
         /\ panicked' = r.panics
         /\ hist' = IF r.panics THEN hist
                    ELSE [hist EXCEPT !.removed[pid] = @ + 1]
    /\ op' = [name |-> "remove_from_pid2process", pid |-> pid,
              cells |-> pid2process_cells]
    /\ UNCHANGED <<ready_queue, task_status, timers, time, overflow_checks,
                   kernel_vars, signals, exit_code, trap_cx, trap_local>>

CallPid2process(pid) ==
    /\ ~panicked
    /\ op' = [name |-> "pid2process", pid |-> pid,
              ret |-> pid2process(pid2pcb, pid), cells |-> pid2process_cells]
    /\ UNCHANGED <<ready_queue, task_status, timers, time, overflow_checks, panicked, kernel_vars, proc_vars,
                   hist>>

NextPid ==
    \/ \E pid \in Tasks, process \in Tasks : CallInsertPid(pid, process)
    \/ \E pid \in Tasks : CallRemovePid(pid)
    \/ \E pid \in Tasks : CallPid2process(pid)

SpecPid == InitPid /\ [][NextPid]_vars

(***************************************************************************)
(* Timer harness: any sequence of add_timer / remove_timer / check_timer   *)
(* calls, with the clock advancing in between.                             *)
(***************************************************************************)
\* Deadlines handed to add_timer: two early ones, isize::MAX, the word whose
\* negation overflows, and one above it.
ExpireInputs == {1, 2, IsizeMax, IsizeMax + 1, IsizeMax + 2}

InitTimer ==
    /\ ready_queue = <<>>
    /\ task_status = [t \in Tasks |-> "Blocked"]
    /\ timers = EmptyBag
    /\ time = 0
    /\ overflow_checks \in BOOLEAN
    /\ panicked = FALSE
    /\ InitKernelIdle
    /\ mutex.kind = "blocking"
    /\ op = NoOp
    /\ hist = NoHist(sem.count)

\* The clock: the time register advances by one millisecond's worth of ticks.
Tick ==
    /\ ~panicked
    /\ get_time_ms < MaxMs
    /\ time' = time + (CLOCK_FREQ \div MSEC_PER_SEC)
    /\ op' = [name |-> "tick"]
    /\ UNCHANGED <<ready_queue, task_status, timers, overflow_checks, panicked,
                   kernel_vars, hist>>
    /\ UNCHANGED proc_vars

\* add_timer(expire_ms, task)
add_timer(expire_ms, task) ==
    LET x == TimerCondVar(expire_ms, task) IN
    IF PushPanics(timers, x)
    THEN /\ panicked' = TRUE
         /\ UNCHANGED timers
    ELSE /\ timers' = HeapPush(timers, x)
         /\ UNCHANGED panicked

\* remove_timer(task)
remove_timer(task) == timers' = RemoveTimerHeap(timers, task)

\* check_timer(): pops and wakes while the entry peek() returns has expired;
\* run is the sequence of entries popped.  The result is the heap left and
\* the scheduling state after the wakeups.
check_timer(run) ==
    [timers |-> PopAll(timers, run),
     sched |-> WakeAll(Sched, RunTasks(run))]

CallAddTimer(expire_ms, task) ==
    /\ ~panicked
    /\ BagCardinality(timers) + Len(ready_queue) < MaxTimers
    /\ add_timer(expire_ms, task)
    /\ op' = [name |-> "add_timer", expire_ms |-> expire_ms, task |-> task,
              cells |-> add_timer_cells]
    /\ UNCHANGED <<ready_queue, task_status, time, overflow_checks, kernel_vars, hist>>
    /\ UNCHANGED proc_vars

CallRemoveTimer(task) ==
    /\ ~panicked
    /\ remove_timer(task)
    /\ op' = [name |-> "remove_timer", task |-> task, before |-> timers,
              cells |-> remove_timer_cells]
    /\ UNCHANGED <<ready_queue, task_status, time, overflow_checks, panicked,
                   kernel_vars, hist>>
    /\ UNCHANGED proc_vars

CallCheckTimer ==
    /\ ~panicked
    /\ \E run \in CheckTimerRuns(timers, get_time_ms) :
         LET r == check_timer(run) IN
         /\ timers' = r.timers
         /\ task_status' = r.sched.task_status
         /\ ready_queue' = r.sched.ready_queue
         /\ op' = [name |-> "check_timer", now_ms |-> get_time_ms,
                   before |-> timers, popped |-> run,
                   cells |-> check_timer_cells(run)]
    /\ UNCHANGED <<time, overflow_checks, panicked, kernel_vars, hist>>
    /\ UNCHANGED proc_vars

NextTimer ==
    \/ \E e \in ExpireInputs, task \in Tasks : CallAddTimer(e, task)
    \/ \E task \in Tasks : CallRemoveTimer(task)
    \/ CallCheckTimer
    \/ Tick

SpecTimer == InitTimer /\ [][NextTimer]_vars

(***************************************************************************)
(* Comparison harness: cmp is applied to any two entries, the expire_ms of *)
(* which range over the whole machine word.                                *)
(***************************************************************************)
Usize == 0..(WordMod - 1)

\* x.cmp(&y): with overflow checks a negation that overflows panics, without
\* them it wraps.
TimerCondVar_cmp(x, y) ==
    IF overflow_checks /\ CmpOverflows(x, y) THEN "panic" ELSE TimerCmp(x, y)

CallCmp(a, b, task, other) ==
    /\ ~panicked
    /\ LET x == TimerCondVar(a, task)
           y == TimerCondVar(b, other)
       IN /\ panicked' = (TimerCondVar_cmp(x, y) = "panic")
          /\ op' = [name |-> "cmp", a |-> a, b |-> b,
                    ret |-> TimerCondVar_cmp(x, y),
                    overflows |-> CmpOverflows(x, y)]
    /\ UNCHANGED <<ready_queue, task_status, timers, time, overflow_checks,
                   kernel_vars, proc_vars, hist>>

NextCmp == \E a \in Usize, b \in Usize, task \in Tasks, other \in Tasks :
              CallCmp(a, b, task, other)

SpecCmp == InitTimer /\ [][NextCmp]_vars

(***************************************************************************)
(* The kernel: tasks trap into the kernel from user mode, one at a time.   *)
(* The hart handles a trap to its end or to a context switch before        *)
(* anything else happens: interrupts are taken in user mode only (a trap   *)
(* raised in kernel mode enters trap_from_kernel, which panics).           *)
(*                                                                         *)
(* pc[t] is where task t continues when the hart executes it:              *)
(*   "user"         in, or returning to, user mode                         *)
(*   "cv_enqueue"   wait_with_mutex: mutex.unlock() done                   *)
(*   "cv_block"     wait_with_mutex: in the wait queue                     *)
(*   "cv_lock"      wait_with_mutex: in block_current_and_run_next         *)
(*   "cv_lock_ret"  wait_with_mutex: in mutex.lock(), blocked              *)
(*   "ns_block"     wait_no_sched: in the wait queue                       *)
(*   "ns_sched"     wait_no_sched has returned, caller about to schedule   *)
(*   "lock_ret"     MutexBlocking::lock: blocked                           *)
(*   "spin_lock"    MutexSpin::lock: yielded, about to test the lock again *)
(*   "down_ret"     Semaphore::down: blocked                               *)
(*   "ecall_ret"    trap_handler: inside syscall()                         *)
(*   "exited"       after exit                                             *)
(***************************************************************************)
MaxCount == 1      \* up() is not called on a semaphore whose count is MaxCount

\* Sleep durations: a short one and one that carries the deadline past
\* isize::MAX.
SleepInputs == {1, IsizeMax + 1}

timer_vars == <<timers, time, overflow_checks, panicked>>

Running(t) == ~panicked /\ cpu = t

UserMode(t) == Running(t) /\ pc[t] = "user"

\* current_task(): PROCESSOR.current
current_task == current

\* take_current_task followed by schedule(): the hart returns to the idle loop.
schedule ==
    /\ current' = None
    /\ cpu' = None

\* block_current_task: take the current task and mark it Blocked.
block_current_task(status, t) == [status EXCEPT ![t] = "Blocked"]

\* suspend_current_and_run_next on (task_status, ready_queue): the current
\* task becomes Ready and goes to the tail of the ready queue.
suspend_current(s, t) ==
    [task_status |-> [s.task_status EXCEPT ![t] = "Ready"],
     ready_queue |-> add_task(s.ready_queue, t)]

\* run_tasks, the idle loop: fetch a task, mark it Running, switch to it.
run_tasks ==
    /\ ~panicked
    /\ cpu = None
    /\ LET r == fetch_task(ready_queue) IN
         /\ r.ret # None
         /\ ready_queue' = r.queue
         /\ task_status' = [task_status EXCEPT ![r.ret] = "Running"]
         /\ current' = r.ret
         /\ cpu' = r.ret
         /\ op' = [name |-> "run_tasks", task |-> r.ret, cells |-> fetch_task_cells]
    /\ UNCHANGED <<timer_vars, pc, holds, mutex, sem, condvar, hist>>
    /\ UNCHANGED proc_vars

\* A sys_yield that switches away without putting the caller back into the
\* ready queue.
sys_yield_no_requeue(t) ==
    /\ UserMode(t)
    /\ task_status' = [task_status EXCEPT ![t] = "Ready"]
    /\ schedule
    /\ op' = [name |-> "yield", task |-> t]
    /\ UNCHANGED <<ready_queue, timer_vars, pc, holds, mutex, sem, condvar, hist>>
    /\ UNCHANGED proc_vars

\* sys_yield
sys_yield(t) ==
    /\ UserMode(t)
    /\ LET s == suspend_current(Sched, t) IN
         /\ task_status' = s.task_status
         /\ ready_queue' = s.ready_queue
    /\ schedule
    /\ op' = [name |-> "yield", task |-> t]
    /\ UNCHANGED <<timer_vars, pc, holds, mutex, sem, condvar, hist>>
    /\ UNCHANGED proc_vars

\* exit_current_and_run_next: the process of the task (the task is its only
\* one) leaves the pid registry, the task becomes a Zombie and the hart
\* switches away.
exit_current_and_run_next(t) ==
    LET r == remove_from_pid2process(pid2pcb, t) IN
    IF r.panics
    THEN /\ panicked' = TRUE
         /\ UNCHANGED <<pid2pcb, task_status, pc, current, cpu>>
    ELSE /\ pid2pcb' = r.map
         /\ task_status' = [task_status EXCEPT ![t] = "Zombie"]
         /\ pc' = [pc EXCEPT ![t] = "exited"]
         /\ schedule
         /\ UNCHANGED panicked

\* sys_exit: exit_current_and_run_next; the exit code is not passed on
sys_exit(t) ==
    /\ UserMode(t)
    /\ exit_current_and_run_next(t)
    /\ op' = [name |-> "exit", task |-> t, cells |-> pid2process_cells]
    /\ UNCHANGED <<ready_queue, timers, time, overflow_checks, holds, mutex,
                   sem, condvar, signals, exit_code, trap_cx, trap_local, hist>>

\* A timer interrupt that is also taken, and handled by rescheduling, while
\* the task is in the kernel.
trap_handler_timer_in_kernel(t) ==
    /\ Running(t)
    /\ \E run \in CheckTimerRuns(timers, get_time_ms) :
         LET r == check_timer(run)
             s == suspend_current(r.sched, t)
         IN /\ timers' = r.timers
            /\ task_status' = s.task_status
            /\ ready_queue' = s.ready_queue
            /\ op' = [name |-> "timer_interrupt", task |-> t,
                      next_trigger |-> set_next_trigger,
                      woken |-> RunTasks(run)]
    /\ schedule
    /\ UNCHANGED <<time, overflow_checks, panicked, pc, holds, mutex, sem,
                   condvar, hist>>
    /\ UNCHANGED proc_vars

\* A timer interrupt that suspends the running task before it checks the
\* timers.
trap_handler_timer_suspend_first(t) ==
    /\ UserMode(t)
    /\ \E run \in CheckTimerRuns(timers, get_time_ms) :
         LET s == suspend_current(Sched, t)
             r == WakeAll(s, RunTasks(run))
         IN /\ timers' = PopAll(timers, run)
            /\ task_status' = r.task_status
            /\ ready_queue' = r.ready_queue
            /\ op' = [name |-> "timer_interrupt", task |-> t,
                      next_trigger |-> set_next_trigger,
                      woken |-> RunTasks(run)]
    /\ schedule
    /\ UNCHANGED <<time, overflow_checks, panicked, pc, holds, mutex, sem,
                   condvar, hist>>
    /\ UNCHANGED proc_vars

\* trap_handler, Interrupt::SupervisorTimer: set_next_trigger, check_timer,
\* suspend_current_and_run_next.  The trap is taken from user mode.
trap_handler_timer(t) ==
    /\ UserMode(t)
    /\ \E run \in CheckTimerRuns(timers, get_time_ms) :
         LET r == check_timer(run)
             s == suspend_current(r.sched, t)
         IN /\ timers' = r.timers
            /\ task_status' = s.task_status
            /\ ready_queue' = s.ready_queue
            /\ op' = [name |-> "timer_interrupt", task |-> t,
                      next_trigger |-> set_next_trigger,
                      woken |-> RunTasks(run),
                      cells |-> check_timer_cells(run)]
    /\ schedule
    /\ UNCHANGED <<time, overflow_checks, panicked, pc, holds, mutex, sem,
                   condvar, hist>>
    /\ UNCHANGED proc_vars

\* sleep: add_timer(get_time_ms() + ms, current), block_current_and_run_next
sys_sleep(t, ms) ==
    /\ UserMode(t)
    /\ get_time_ms + ms < WordMod
    /\ add_timer(get_time_ms + ms, t)
    /\ IF panicked'
       THEN UNCHANGED <<task_status, current, cpu>>
       ELSE /\ task_status' = block_current_task(task_status, t)
            /\ schedule
    /\ op' = [name |-> "sleep", task |-> t, cells |-> add_timer_cells]
    /\ UNCHANGED <<ready_queue, time, overflow_checks, pc, holds, mutex, sem,
                   condvar, hist>>
    /\ UNCHANGED proc_vars

(***************************************************************************)
(* sync/mutex.rs, MutexBlocking and MutexSpin (from the design document)   *)
(***************************************************************************)
\* An unlock that marks the lock free although it hands it to a waiter.
Mutex_unlock_frees(m, s) ==
    IF m.wait_queue # <<>>
    THEN [mutex |-> [m EXCEPT !.locked = FALSE, !.wait_queue = Tail(@)],
          sched |-> wakeup_task(s, Head(m.wait_queue)),
          woken |-> Head(m.wait_queue)]
    ELSE [mutex |-> [m EXCEPT !.locked = FALSE], sched |-> s, woken |-> None]

\* unlock().  Blocking: hand the lock to the head of the wait queue and wake
\* it, or mark the lock free when nobody waits.  Spin: mark the lock free.
Mutex_unlock(m, s) ==
    IF m.kind = "blocking" /\ m.wait_queue # <<>>
    THEN [mutex |-> [m EXCEPT !.wait_queue = Tail(@)],
          sched |-> wakeup_task(s, Head(m.wait_queue)),
          woken |-> Head(m.wait_queue)]
    ELSE [mutex |-> [m EXCEPT !.locked = FALSE], sched |-> s, woken |-> None]

\* lock() by the running task t.  If the lock is free, take it.  Otherwise
\* the blocking mutex puts the caller in its wait queue and calls
\* block_current_and_run_next (the caller continues at blocked_pc), and the
\* spin mutex calls suspend_current_and_run_next and tests again (at retry_pc).
Mutex_lock(t, retry_pc, blocked_pc, acquired_name) ==
    IF ~mutex.locked
    THEN /\ mutex' = [mutex EXCEPT !.locked = TRUE]
         /\ holds' = holds \cup {t}
         /\ pc' = [pc EXCEPT ![t] = "user"]
         /\ op' = [name |-> acquired_name, task |-> t, blocked |-> FALSE]
         /\ UNCHANGED <<ready_queue, task_status, current, cpu>>
    ELSE IF mutex.kind = "blocking"
    THEN /\ mutex' = [mutex EXCEPT !.wait_queue = Append(@, current_task)]
         /\ task_status' = block_current_task(task_status, t)
         /\ schedule
         /\ pc' = [pc EXCEPT ![t] = blocked_pc]
         /\ op' = [name |-> "lock_block", task |-> t]
         /\ UNCHANGED <<ready_queue, holds>>
    ELSE /\ LET s == suspend_current(Sched, t) IN
              /\ task_status' = s.task_status
              /\ ready_queue' = s.ready_queue
         /\ schedule
         /\ pc' = [pc EXCEPT ![t] = retry_pc]
         /\ op' = [name |-> "lock_spin", task |-> t]
         /\ UNCHANGED <<mutex, holds>>

\* The lock syscall, and the next turn of the spin loop; a task does not lock
\* the mutex it holds.
mutex_lock(t) ==
    /\ \/ UserMode(t) /\ t \notin holds
       \/ Running(t) /\ pc[t] = "spin_lock"
    /\ Mutex_lock(t, "spin_lock", "lock_ret", "lock_return")
    /\ UNCHANGED <<timer_vars, sem, condvar, hist>>
    /\ UNCHANGED proc_vars

\* A task woken by unlock() returns from lock(): the lock was handed to it.
mutex_lock_return(t) ==
    /\ Running(t)
    /\ pc[t] \in {"lock_ret", "cv_lock_ret"}
    /\ holds' = holds \cup {t}
    /\ pc' = [pc EXCEPT ![t] = "user"]
    /\ op' = [name |-> IF pc[t] = "lock_ret" THEN "lock_return"
                       ELSE "wait_with_mutex_return", task |-> t,
              blocked |-> TRUE]
    /\ UNCHANGED <<ready_queue, task_status, timer_vars, current, cpu, mutex,
                   sem, condvar, hist>>
    /\ UNCHANGED proc_vars

\* The unlock syscall, issued by the holder.
mutex_unlock(t) ==
    /\ UserMode(t)
    /\ t \in holds
    /\ LET r == Mutex_unlock(mutex, Sched) IN
         /\ mutex' = r.mutex
         /\ task_status' = r.sched.task_status
         /\ ready_queue' = r.sched.ready_queue
         /\ op' = [name |-> "unlock", task |-> t, woken |-> r.woken]
    /\ holds' = holds \ {t}
    /\ UNCHANGED <<timer_vars, current, cpu, pc, sem, condvar, hist>>
    /\ UNCHANGED proc_vars

(***************************************************************************)
(* sync/semaphore.rs (from the design document)                            *)
(***************************************************************************)
\* An up() that wakes the waiter that blocked last.
Semaphore_up_last(sm, s) ==
    IF sm.count < 0 /\ sm.wait_queue # <<>>
    THEN [sem |-> [count |-> sm.count + 1,
                   wait_queue |-> SubSeq(sm.wait_queue, 1, Len(sm.wait_queue) - 1)],
          sched |-> wakeup_task(s, sm.wait_queue[Len(sm.wait_queue)]),
          woken |-> sm.wait_queue[Len(sm.wait_queue)]]
    ELSE [sem |-> [sm EXCEPT !.count = @ + 1], sched |-> s, woken |-> None]

\* An up() that increments the count and leaves the waiter where it is.
Semaphore_up_keep(sm, s) ==
    [sem |-> [sm EXCEPT !.count = @ + 1], sched |-> s, woken |-> None]

\* up(): increment; if the count was negative, dequeue and wake one waiter.
Semaphore_up(sm, s) ==
    IF sm.count < 0 /\ sm.wait_queue # <<>>
    THEN [sem |-> [count |-> sm.count + 1, wait_queue |-> Tail(sm.wait_queue)],
          sched |-> wakeup_task(s, Head(sm.wait_queue)),
          woken |-> Head(sm.wait_queue)]
    ELSE [sem |-> [sm EXCEPT !.count = @ + 1], sched |-> s, woken |-> None]

\* down(): decrement; if the result is negative, enqueue the caller and
\* block_current_and_run_next.
semaphore_down(t) ==
    /\ UserMode(t)
    /\ IF sem.count - 1 < 0
       THEN /\ sem' = [count |-> sem.count - 1,
                       wait_queue |-> Append(sem.wait_queue, current_task)]
            /\ task_status' = block_current_task(task_status, t)
            /\ schedule
            /\ pc' = [pc EXCEPT ![t] = "down_ret"]
            /\ op' = [name |-> "down_block", task |-> t]
            /\ UNCHANGED hist
       ELSE /\ sem' = [sem EXCEPT !.count = @ - 1]
            /\ op' = [name |-> "down_pass", task |-> t]
            /\ hist' = IF hist.up_seen THEN hist
                       ELSE [hist EXCEPT !.passes = @ + 1]
            /\ UNCHANGED <<task_status, current, cpu, pc>>
    /\ UNCHANGED <<ready_queue, timer_vars, holds, mutex, condvar>>
    /\ UNCHANGED proc_vars

\* A task woken by up() returns from down().
semaphore_down_return(t) ==
    /\ Running(t)
    /\ pc[t] = "down_ret"
    /\ pc' = [pc EXCEPT ![t] = "user"]
    /\ op' = [name |-> "down_return", task |-> t]
    /\ UNCHANGED <<ready_queue, task_status, timer_vars, current, cpu, holds,
                   mutex, sem, condvar, hist>>
    /\ UNCHANGED proc_vars

\* The up syscall.
semaphore_up(t) ==
    /\ UserMode(t)
    /\ sem.count < MaxCount
    /\ LET r == Semaphore_up(sem, Sched) IN
         /\ sem' = r.sem
         /\ task_status' = r.sched.task_status
         /\ ready_queue' = r.sched.ready_queue
         /\ op' = [name |-> "up", task |-> t, woken |-> r.woken]
    /\ hist' = [hist EXCEPT !.up_seen = TRUE]
    /\ UNCHANGED <<timer_vars, current, cpu, pc, holds, mutex, condvar>>
    /\ UNCHANGED proc_vars

(***************************************************************************)
(* sync/condvar.rs                                                         *)
(***************************************************************************)
\* A signal that wakes the waiter that arrived last.
Condvar_signal_last(cv, s) ==
    IF cv.wait_queue # <<>>
    THEN [condvar |-> [wait_queue |-> SubSeq(cv.wait_queue, 1, Len(cv.wait_queue) - 1)],
          sched |-> wakeup_task(s, cv.wait_queue[Len(cv.wait_queue)]),
          woken |-> cv.wait_queue[Len(cv.wait_queue)]]
    ELSE [condvar |-> cv, sched |-> s, woken |-> None]

\* Condvar::signal: pop_front the wait queue and wake that task, if any.
Condvar_signal(cv, s) ==
    IF cv.wait_queue # <<>>
    THEN [condvar |-> [cv EXCEPT !.wait_queue = Tail(@)],
          sched |-> wakeup_task(s, Head(cv.wait_queue)),
          woken |-> Head(cv.wait_queue)]
    ELSE [condvar |-> cv, sched |-> s, woken |-> None]

\* The signal syscall.
condvar_signal(t) ==
    /\ UserMode(t)
    /\ LET r == Condvar_signal(condvar, Sched) IN
         /\ condvar' = r.condvar
         /\ task_status' = r.sched.task_status
         /\ ready_queue' = r.sched.ready_queue
         /\ op' = [name |-> "signal", task |-> t, woken |-> r.woken,
                   cells |-> Condvar_signal_cells(condvar)]
    /\ UNCHANGED <<timer_vars, current, cpu, pc, holds, mutex, sem, hist>>
    /\ UNCHANGED proc_vars

\* A wait_with_mutex that keeps the mutex while it waits.
wait_with_mutex_keep(t) ==
    /\ UserMode(t)
    /\ t \in holds
    /\ pc' = [pc EXCEPT ![t] = "cv_enqueue"]
    /\ op' = [name |-> "wait_unlock", task |-> t, woken |-> None]
    /\ UNCHANGED <<ready_queue, task_status, timer_vars, current, cpu, holds,
                   mutex, sem, condvar, hist>>
    /\ UNCHANGED proc_vars

\* Condvar::wait_with_mutex, line 1: mutex.unlock().  The caller holds the
\* mutex.
wait_with_mutex_unlock(t) ==
    /\ UserMode(t)
    /\ t \in holds
    /\ LET r == Mutex_unlock(mutex, Sched) IN
         /\ mutex' = r.mutex
         /\ task_status' = r.sched.task_status
         /\ ready_queue' = r.sched.ready_queue
         /\ op' = [name |-> "wait_unlock", task |-> t, woken |-> r.woken]
    /\ holds' = holds \ {t}
    /\ pc' = [pc EXCEPT ![t] = "cv_enqueue"]
    /\ UNCHANGED <<timer_vars, current, cpu, sem, condvar, hist>>
    /\ UNCHANGED proc_vars

\* A wait_with_mutex that forgets to enter the wait queue.
wait_with_mutex_skip_enqueue(t) ==
    /\ Running(t)
    /\ pc[t] = "cv_enqueue"
    /\ pc' = [pc EXCEPT ![t] = "cv_block"]
    /\ op' = [name |-> "wait_enqueue", task |-> t]
    /\ UNCHANGED <<ready_queue, task_status, timer_vars, current, cpu, holds,
                   mutex, sem, condvar, hist>>
    /\ UNCHANGED proc_vars

\* Condvar::wait_with_mutex, line 2: wait_queue.push_back(current_task())
wait_with_mutex_enqueue(t) ==
    /\ Running(t)
    /\ pc[t] = "cv_enqueue"
    /\ condvar' = [condvar EXCEPT !.wait_queue = Append(@, current_task)]
    /\ pc' = [pc EXCEPT ![t] = "cv_block"]
    /\ op' = [name |-> "wait_enqueue", task |-> t,
              cells |-> Condvar_wait_cells]
    /\ UNCHANGED <<ready_queue, task_status, timer_vars, current, cpu, holds,
                   mutex, sem, hist>>
    /\ UNCHANGED proc_vars

\* A wait_with_mutex that switches away without marking its caller Blocked.
wait_with_mutex_block_no_status(t) ==
    /\ Running(t)
    /\ pc[t] = "cv_block"
    /\ schedule
    /\ pc' = [pc EXCEPT ![t] = "cv_lock"]
    /\ op' = [name |-> "wait_block", task |-> t]
    /\ UNCHANGED <<ready_queue, task_status, timer_vars, holds, mutex, sem,
                   condvar, hist>>
    /\ UNCHANGED proc_vars

\* Condvar::wait_with_mutex, line 3: block_current_and_run_next()
wait_with_mutex_block(t) ==
    /\ Running(t)
    /\ pc[t] = "cv_block"
    /\ task_status' = block_current_task(task_status, t)
    /\ schedule
    /\ pc' = [pc EXCEPT ![t] = "cv_lock"]
    /\ op' = [name |-> "wait_block", task |-> t]
    /\ UNCHANGED <<ready_queue, timer_vars, holds, mutex, sem, condvar, hist>>
    /\ UNCHANGED proc_vars

\* Condvar::wait_with_mutex, line 4, once the task runs again: mutex.lock()
wait_with_mutex_lock(t) ==
    /\ Running(t)
    /\ pc[t] = "cv_lock"
    /\ Mutex_lock(t, "cv_lock", "cv_lock_ret", "wait_with_mutex_return")
    /\ UNCHANGED <<timer_vars, sem, condvar, hist>>
    /\ UNCHANGED proc_vars

\* Condvar::wait_no_sched, first statement: wait_queue.push_back(current_task())
wait_no_sched_enqueue(t) ==
    /\ UserMode(t)
    /\ condvar' = [condvar EXCEPT !.wait_queue = Append(@, current_task)]
    /\ pc' = [pc EXCEPT ![t] = "ns_block"]
    /\ op' = [name |-> "wait_no_sched_enqueue", task |-> t,
              cells |-> Condvar_wait_cells]
    /\ UNCHANGED <<ready_queue, task_status, timer_vars, current, cpu, holds,
                   mutex, sem, hist>>
    /\ UNCHANGED proc_vars

\* A wait_no_sched that blocks its caller and switches away from it.
wait_no_sched_block_switch(t) ==
    /\ Running(t)
    /\ pc[t] = "ns_block"
    /\ task_status' = block_current_task(task_status, t)
    /\ schedule
    /\ pc' = [pc EXCEPT ![t] = "ns_sched"]
    /\ op' = [name |-> "wait_no_sched_return", task |-> t]
    /\ UNCHANGED <<ready_queue, timer_vars, holds, mutex, sem, condvar, hist>>
    /\ UNCHANGED proc_vars

\* Condvar::wait_no_sched, second statement: block_current_task(), which
\* takes the task out of the processor and marks it Blocked; the hart keeps
\* executing the caller.
wait_no_sched_block(t) ==
    /\ Running(t)
    /\ pc[t] = "ns_block"
    /\ task_status' = block_current_task(task_status, t)
    /\ current' = None
    /\ pc' = [pc EXCEPT ![t] = "ns_sched"]
    /\ op' = [name |-> "wait_no_sched_return", task |-> t]
    /\ UNCHANGED <<ready_queue, timer_vars, cpu, holds, mutex, sem, condvar, hist>>
    /\ UNCHANGED proc_vars

\* The caller of wait_no_sched switches away with the context it was given.
wait_no_sched_schedule(t) ==
    /\ Running(t)
    /\ pc[t] = "ns_sched"
    /\ schedule
    /\ pc' = [pc EXCEPT ![t] = "user"]
    /\ op' = [name |-> "wait_no_sched_schedule", task |-> t]
    /\ UNCHANGED <<ready_queue, task_status, timer_vars, holds, mutex, sem,
                   condvar, hist>>
    /\ UNCHANGED proc_vars

(***************************************************************************)
(* The kernel with every task created, Ready and queued.                   *)
(***************************************************************************)
Init ==
    /\ ready_queue = [i \in 1..NumTasks |-> i]
    /\ task_status = [t \in Tasks |-> "Ready"]
    /\ timers = EmptyBag
    /\ time = 0
    /\ overflow_checks \in BOOLEAN
    /\ panicked = FALSE
    /\ InitKernelIdle
    /\ op = NoOp
    /\ hist = NoHist(sem.count)

Next ==
    \/ run_tasks
    \/ Tick
    \/ \E t \in Tasks : sys_yield(t)
    \/ \E t \in Tasks : sys_exit(t)
    \/ \E t \in Tasks : trap_handler_timer(t)
    \/ \E t \in Tasks, ms \in SleepInputs : sys_sleep(t, ms)
    \/ \E t \in Tasks : mutex_lock(t)
    \/ \E t \in Tasks : mutex_lock_return(t)
    \/ \E t \in Tasks : mutex_unlock(t)
    \/ \E t \in Tasks : semaphore_down(t)
    \/ \E t \in Tasks : semaphore_down_return(t)
    \/ \E t \in Tasks : semaphore_up(t)
    \/ \E t \in Tasks : condvar_signal(t)
    \/ \E t \in Tasks : wait_with_mutex_unlock(t)
    \/ \E t \in Tasks : wait_with_mutex_enqueue(t)
    \/ \E t \in Tasks : wait_with_mutex_block(t)
    \/ \E t \in Tasks : wait_with_mutex_lock(t)
    \/ \E t \in Tasks : wait_no_sched_enqueue(t)
    \/ \E t \in Tasks : wait_no_sched_block(t)
    \/ \E t \in Tasks : wait_no_sched_schedule(t)

Spec == Init /\ [][Next]_vars

(***************************************************************************)
(* Parts of the kernel: the tasks use one kind of primitive only.  Time    *)
(* does not advance and no task sleeps, so check_timer finds an empty heap.*)
(***************************************************************************)
InitSync(kinds, counts) ==
    /\ ready_queue = [i \in 1..NumTasks |-> i]
    /\ task_status = [t \in Tasks |-> "Ready"]
    /\ timers = EmptyBag
    /\ time = 0
    /\ overflow_checks = FALSE
    /\ panicked = FALSE
    /\ current = None
    /\ cpu = None
    /\ pc = [t \in Tasks |-> "user"]
    /\ holds = {}
    /\ mutex \in {NewMutex(k) : k \in kinds}
    /\ sem \in {[count |-> n, wait_queue |-> <<>>] : n \in counts}
    /\ condvar = [wait_queue |-> <<>>]
    /\ InitProcesses
    /\ op = NoOp
    /\ hist = NoHist(sem.count)

Scheduling ==
    \/ run_tasks
    \/ \E t \in Tasks : sys_yield(t)
    \/ \E t \in Tasks : trap_handler_timer(t)

MutexCalls ==
    \/ \E t \in Tasks : mutex_lock(t)
    \/ \E t \in Tasks : mutex_lock_return(t)
    \/ \E t \in Tasks : mutex_unlock(t)

SemaphoreCalls ==
    \/ \E t \in Tasks : semaphore_down(t)
    \/ \E t \in Tasks : semaphore_down_return(t)
    \/ \E t \in Tasks : semaphore_up(t)

CondvarCalls ==
    \/ \E t \in Tasks : condvar_signal(t)
    \/ \E t \in Tasks : wait_with_mutex_unlock(t)
    \/ \E t \in Tasks : wait_with_mutex_enqueue(t)
    \/ \E t \in Tasks : wait_with_mutex_block(t)
    \/ \E t \in Tasks : wait_with_mutex_lock(t)
    \/ \E t \in Tasks : wait_no_sched_enqueue(t)
    \/ \E t \in Tasks : wait_no_sched_block(t)
    \/ \E t \in Tasks : wait_no_sched_schedule(t)

NextMutex == Scheduling \/ MutexCalls

NextSemaphore == Scheduling \/ SemaphoreCalls

NextCondvar == Scheduling \/ MutexCalls \/ CondvarCalls

SpecMutex == InitSync(MutexKinds, {0}) /\ [][NextMutex]_vars

SpecSemaphore == InitSync({"blocking"}, 0..MaxCount) /\ [][NextSemaphore]_vars

SpecCondvar == InitSync(MutexKinds, {0}) /\ [][NextCondvar]_vars

(***************************************************************************)
(* trap/mod.rs: trap_handler, the exception arms.  A task that is inside   *)
(* a syscall continues at pc "ecall_ret" when the syscall returns.  The    *)
(* syscalls, the signals and the trap context are not in src/ and follow   *)
(* the design document; an exec-like syscall gives the task a new trap     *)
(* context, in another page, that starts the new program.                  *)
(***************************************************************************)
MaxSepc == 4       \* no task makes a syscall from an address above MaxSepc - 4

MaxPpn == 2        \* trap contexts live in pages 1..MaxPpn

\* Values a syscall returns (isize), and entry points of a program.
Results == {-1}

Entries == {0, 4}

\* result as usize
AsUsize(r) == r % WordMod

\* The exceptions of the fault arm, and a cause no arm handles.
Faults ==
    {"StoreFault", "StorePageFault", "InstructionFault", "InstructionPageFault",
     "LoadFault", "LoadPageFault"}

Unsupported == {"Breakpoint"}

\* The signal an exception is translated into.
SignalOf(cause) == IF cause = "IllegalInstruction" THEN "SIGILL" ELSE "SIGSEGV"

\* current_add_signal
current_add_signal(sigs, t, sig) == [sigs EXCEPT ![t] = @ \cup {sig}]

\* The error code that belongs to a signal.
ErrnoOf(sig) == [errno_of |-> sig]

\* check_signals_of_current: the error code of a pending terminating signal
\* as a sequence of length one, or the empty sequence if none is pending
check_signals_of_current(sigs, t) ==
    IF "SIGILL" \in sigs[t] THEN <<ErrnoOf("SIGILL")>>
    ELSE IF "SIGSEGV" \in sigs[t] THEN <<ErrnoOf("SIGSEGV")>>
    ELSE <<>>

\* A fault arm that delivers the signal and returns to user mode.
trap_handler_fault_no_exit(t, cause) ==
    /\ UserMode(t)
    /\ signals' = current_add_signal(signals, t, SignalOf(cause))
    /\ op' = [name |-> "fault", task |-> t, cause |-> cause,
              signal |-> SignalOf(cause)]
    /\ UNCHANGED <<ready_queue, task_status, timers, time, overflow_checks,
                   panicked, kernel_vars, pid2pcb, exit_code, trap_cx,
                   trap_local, hist>>

\* trap_handler, the fault arms and the IllegalInstruction arm, followed by
\* the check of the pending signals: current_add_signal, then
\* exit_current_and_run_next(errno) if a signal is pending, else trap_return.
trap_handler_fault(t, cause) ==
    /\ UserMode(t)
    /\ signals' = current_add_signal(signals, t, SignalOf(cause))
    /\ LET e == check_signals_of_current(signals', t) IN
       IF e # <<>>
       THEN /\ exit_current_and_run_next(t)
            /\ exit_code' = [exit_code EXCEPT ![t] = e]
       ELSE UNCHANGED <<pid2pcb, task_status, pc, current, cpu, panicked,
                        exit_code>>
    /\ op' = [name |-> "fault", task |-> t, cause |-> cause,
              signal |-> SignalOf(cause)]
    /\ UNCHANGED <<ready_queue, timers, time, overflow_checks, holds, mutex,
                   sem, condvar, trap_cx, trap_local, hist>>

\* trap_handler, the last arm: any other cause panics.
trap_handler_unsupported(t, cause) ==
    /\ UserMode(t)
    /\ panicked' = TRUE
    /\ op' = [name |-> "unsupported_trap", task |-> t, cause |-> cause]
    /\ UNCHANGED <<ready_queue, task_status, timers, time, overflow_checks,
                   kernel_vars, proc_vars, hist>>

\* trap_handler, UserEnvCall arm, before the dispatch: cx = current_trap_cx();
\* cx.sepc += 4.  The result is the trap contexts and the locals after it.
UserEnvCall_enter(t) ==
    [trap_cx |-> [trap_cx EXCEPT ![t].sepc = @ + 4],
     cx |-> trap_cx[t].ppn]

\* What every syscall step shares: the task traps from user mode with an
\* ecall and the pc it trapped with is remembered.
UserEnvCall(t, kind) ==
    /\ UserMode(t)
    /\ trap_cx[t].sepc + 4 <= MaxSepc
    /\ hist' = [hist EXCEPT !.ecall_sepc[t] = trap_cx[t].sepc]
    /\ op' = [name |-> "ecall", task |-> t, kind |-> kind,
              sepc_at_dispatch |-> UserEnvCall_enter(t).trap_cx[t].sepc]

\* A syscall that returns r without a context switch (sys_get_time, sys_sbrk).
syscall_return(t, r) ==
    /\ UserEnvCall(t, "return")
    /\ trap_cx' = UserEnvCall_enter(t).trap_cx
    /\ trap_local' = [trap_local EXCEPT
                         ![t] = [cx |-> UserEnvCall_enter(t).cx, result |-> r]]
    /\ pc' = [pc EXCEPT ![t] = "ecall_ret"]
    /\ UNCHANGED <<ready_queue, task_status, timers, time, overflow_checks,
                   panicked, current, cpu, holds, mutex, sem, condvar, pid2pcb,
                   signals, exit_code>>

\* sys_yield called through the trap: the task is suspended inside the
\* syscall, which returns 0 when the task runs again.
syscall_yield(t) ==
    /\ UserEnvCall(t, "yield")
    /\ trap_cx' = UserEnvCall_enter(t).trap_cx
    /\ trap_local' = [trap_local EXCEPT
                         ![t] = [cx |-> UserEnvCall_enter(t).cx, result |-> 0]]
    /\ LET s == suspend_current(Sched, t) IN
         /\ task_status' = s.task_status
         /\ ready_queue' = s.ready_queue
    /\ schedule
    /\ pc' = [pc EXCEPT ![t] = "ecall_ret"]
    /\ UNCHANGED <<timers, time, overflow_checks, panicked, holds, mutex, sem,
                   condvar, pid2pcb, signals, exit_code>>

\* An exec-like syscall: the task gets a new trap context in another page,
\* with the entry point of the new program as saved pc, and the syscall
\* returns r; the reference cx read before the dispatch is to the old page.
syscall_exec(t, r, entry) ==
    /\ UserEnvCall(t, "exec")
    /\ trap_cx[t].ppn < MaxPpn
    /\ trap_cx' = [trap_cx EXCEPT
                      ![t] = TrapContext(trap_cx[t].ppn + 1, entry, 0)]
    /\ trap_local' = [trap_local EXCEPT
                         ![t] = [cx |-> UserEnvCall_enter(t).cx, result |-> r]]
    /\ pc' = [pc EXCEPT ![t] = "ecall_ret"]
    /\ UNCHANGED <<ready_queue, task_status, timers, time, overflow_checks,
                   panicked, current, cpu, holds, mutex, sem, condvar, pid2pcb,
                   signals, exit_code>>

\* sys_exit called through the trap: the syscall does not return.
syscall_exit(t) ==
    /\ UserEnvCall(t, "exit")
    /\ trap_cx' = UserEnvCall_enter(t).trap_cx
    /\ exit_current_and_run_next(t)
    /\ UNCHANGED <<ready_queue, timers, time, overflow_checks, holds, mutex,
                   sem, condvar, signals, exit_code, trap_local>>

\* A return from the syscall that writes the result through the reference
\* read before the dispatch: if the context has moved, the write goes to the
\* page it has left.
UserEnvCall_return_stale(t) ==
    /\ Running(t)
    /\ pc[t] = "ecall_ret"
    /\ trap_cx' = IF trap_local[t].cx = trap_cx[t].ppn
                  THEN [trap_cx EXCEPT ![t].x10 = AsUsize(trap_local[t].result)]
                  ELSE trap_cx
    /\ trap_local' = [trap_local EXCEPT ![t] = NoLocal]
    /\ pc' = [pc EXCEPT ![t] = "user"]
    /\ op' = [name |-> "ecall_return", task |-> t,
              result |-> trap_local[t].result, cx |-> trap_local[t].cx]
    /\ UNCHANGED <<ready_queue, task_status, timers, time, overflow_checks,
                   panicked, current, cpu, holds, mutex, sem, condvar, pid2pcb,
                   signals, exit_code, hist>>

\* trap_handler, UserEnvCall arm, after the syscall has returned:
\* cx = current_trap_cx(); cx.x[10] = result as usize; no signal is pending,
\* trap_return.
UserEnvCall_return(t) ==
    /\ Running(t)
    /\ pc[t] = "ecall_ret"
    /\ trap_cx' = [trap_cx EXCEPT ![t].x10 = AsUsize(trap_local[t].result)]
    /\ trap_local' = [trap_local EXCEPT ![t] = NoLocal]
    /\ pc' = [pc EXCEPT ![t] = "user"]
    /\ op' = [name |-> "ecall_return", task |-> t,
              result |-> trap_local[t].result, cx |-> trap_local[t].cx]
    /\ UNCHANGED <<ready_queue, task_status, timers, time, overflow_checks,
                   panicked, current, cpu, holds, mutex, sem, condvar, pid2pcb,
                   signals, exit_code, hist>>

(***************************************************************************)
(* The trap dispatcher: running tasks make syscalls, fault, raise          *)
(* unsupported exceptions and are preempted by the timer interrupt.        *)
(***************************************************************************)
NextTrap ==
    \/ run_tasks
    \/ \E t \in Tasks : trap_handler_timer(t)
    \/ \E t \in Tasks, r \in Results : syscall_return(t, r)
    \/ \E t \in Tasks : syscall_yield(t)
    \/ \E t \in Tasks, r \in Results, entry \in Entries : syscall_exec(t, r, entry)
    \/ \E t \in Tasks : syscall_exit(t)
    \/ \E t \in Tasks : UserEnvCall_return(t)
    \/ \E t \in Tasks, cause \in Faults \cup {"IllegalInstruction"} :
          trap_handler_fault(t, cause)
    \/ \E t \in Tasks, cause \in Unsupported : trap_handler_unsupported(t, cause)

SpecTrap == InitSync({"blocking"}, {0}) /\ [][NextTrap]_vars

(***************************************************************************)
(* Fairness.  The idle loop fetches as long as the ready queue is not      *)
(* empty, the timer interrupt re-arms itself and so preempts any task that *)
(* stays in user mode, and a task the hart executes in the kernel carries  *)
(* on.  For the mutex, a holder that runs again and again calls unlock().  *)
(***************************************************************************)
FairScheduling ==
    /\ WF_vars(run_tasks)
    /\ WF_vars(\E t \in Tasks : trap_handler_timer(t))

SpecMutexLive ==
    /\ InitSync({"blocking"}, {0})
    /\ [][NextMutex]_vars
    /\ FairScheduling
    /\ \A t \in Tasks : WF_vars(mutex_lock_return(t))
    /\ \A t \in Tasks : SF_vars(mutex_unlock(t))

SpecSemaphoreLive ==
    /\ SpecSemaphore
    /\ FairScheduling
    /\ \A t \in Tasks : WF_vars(semaphore_down_return(t))

(***************************************************************************)
(* The scheduler with the clock: tasks run, yield, sleep and exit, the     *)
(* clock advances and timer interrupts preempt the running task.           *)
(***************************************************************************)
InitSleep ==
    /\ Init
    /\ mutex.kind = "blocking"

NextSleep ==
    \/ Scheduling
    \/ Tick
    \/ \E t \in Tasks, ms \in SleepInputs : sys_sleep(t, ms)
    \/ \E t \in Tasks : sys_exit(t)

SpecSleep == InitSleep /\ [][NextSleep]_vars

NextAddFetch ==
    \/ \E task \in Tasks : CallAdd(task)
    \/ CallFetch

SpecAddFetch == InitTaskManager /\ [][NextAddFetch]_vars

(***************************************************************************)
(* Properties of the ready queue.                                          *)
(***************************************************************************)
\* C1: over add() and fetch() calls from an empty queue, the k-th successful
\* fetch returns the k-th task added, what was added and not yet fetched is
\* the queue in order, and a fetch returns None only on, and leaves, an empty
\* queue.
C1_FetchIsFifo ==
    /\ Len(hist.fetched) <= Len(hist.added)
    /\ \A k \in 1..Len(hist.fetched) : hist.fetched[k] = hist.added[k]
    /\ ready_queue = SubSeq(hist.added, Len(hist.fetched) + 1, Len(hist.added))
    /\ (op.name = "fetch" /\ op.ret = None) =>
           (ready_queue = <<>> /\ Len(hist.fetched) = Len(hist.added))
    /\ (op.name = "fetch" /\ op.ret # None) =>
           op.ret = hist.added[Len(hist.fetched)]

\* Two different tasks were fetched in their order of arrival, a third is
\* still queued behind them.
C1_Witness ==
    /\ Len(hist.fetched) = 2
    /\ hist.fetched[1] # hist.fetched[2]
    /\ op.name = "fetch"
    /\ Len(ready_queue) = 1
    /\ ready_queue[1] # hist.fetched[2]

(***************************************************************************)
(* Properties of the timer heap.                                           *)
(***************************************************************************)
Expired(h, now_ms) == {x \in BagToSet(h) : x.expire_ms <= now_ms}

Occurrences(seq, x) == Cardinality({i \in 1..Len(seq) : seq[i] = x})

\* C2: check_timer() at time T wakes exactly the entries with expire_ms <= T,
\* one wake per entry, in ascending expire_ms order, removes exactly those
\* entries and leaves the entries with expire_ms > T in the heap.
C2_CheckTimerWakesExpired ==
    [][op'.name = "check_timer" =>
        LET now == op'.now_ms
            run == op'.popped
        IN /\ \A x \in BagToSet(timers) :
                 /\ x.expire_ms <= now =>
                       /\ Occurrences(run, x) = CopiesIn(x, timers)
                       /\ CopiesIn(x, timers') = 0
                 /\ x.expire_ms > now =>
                       /\ Occurrences(run, x) = 0
                       /\ CopiesIn(x, timers') = CopiesIn(x, timers)
           /\ \A i, j \in 1..Len(run) :
                 i < j => run[i].expire_ms <= run[j].expire_ms
           /\ ready_queue' = ready_queue \o RunTasks(run)
           /\ BagToSet(timers') \subseteq BagToSet(timers)
    ]_vars

\* C3: remove_timer(task) removes every entry of the task, keeps the entries
\* of every other task with their multiplicity, and wakes nobody.
C3_RemoveTimerFrame ==
    [][op'.name = "remove_timer" =>
        /\ \A x \in BagToSet(timers) \cup BagToSet(timers') :
              CopiesIn(x, timers') =
                  IF x.task = op'.task THEN 0 ELSE CopiesIn(x, timers)
        /\ ready_queue' = ready_queue
        /\ task_status' = task_status
        /\ panicked' = panicked
    ]_vars

\* remove_timer has just removed two entries of one task with different
\* deadlines and left an entry of another task.
C3_Witness ==
    /\ op.name = "remove_timer"
    /\ \E x, y \in BagToSet(op.before) :
          /\ x.task = op.task
          /\ y.task = op.task
          /\ x.expire_ms # y.expire_ms
    /\ \E z \in BagToSet(timers) : z.task # op.task
    /\ \A z \in BagToSet(timers) : z.task # op.task

\* C4: an entry fires exactly once: a check_timer() before its deadline
\* neither wakes its task for it nor removes it, the first check_timer() at or
\* after its deadline wakes the task once per entry and removes it, nothing is
\* woken without an entry being consumed, and remove_timer wakes nobody.
C4_TimerFiresOnce ==
    [][/\ op'.name = "check_timer" =>
            /\ Len(ready_queue') - Len(ready_queue)
                   = BagCardinality(timers) - BagCardinality(timers')
            /\ \A x \in BagToSet(timers) :
                  LET woken_for_x == Occurrences(op'.popped, x) IN
                  IF op'.now_ms < x.expire_ms
                  THEN woken_for_x = 0 /\ CopiesIn(x, timers') = CopiesIn(x, timers)
                  ELSE woken_for_x = CopiesIn(x, timers) /\ CopiesIn(x, timers') = 0
       /\ op'.name = "remove_timer" =>
            /\ ready_queue' = ready_queue
            /\ \A x \in BagToSet(timers) :
                  x.task = op'.task => CopiesIn(x, timers') = 0
    ]_vars

(***************************************************************************)
(* Properties of the condition variable.                                   *)
(***************************************************************************)
Position(q, t) == CHOOSE i \in 1..Len(q) : q[i] = t

\* C5: signal() on an empty wait queue changes nothing; on a non-empty one it
\* removes the head of the wait queue, makes exactly that task Ready and
\* appends it to the ready queue; waiters enter the wait queue at its tail, so
\* the head is the one that has waited longest.
C5_SignalWakesHead ==
    [][/\ op'.name = "signal" =>
            IF condvar.wait_queue = <<>>
            THEN /\ op'.woken = None
                 /\ UNCHANGED <<ready_queue, task_status, timers, current, cpu,
                                pc, holds, mutex, sem, condvar>>
            ELSE LET w == Head(condvar.wait_queue) IN
                 /\ op'.woken = w
                 /\ condvar'.wait_queue = Tail(condvar.wait_queue)
                 /\ task_status' = [task_status EXCEPT ![w] = "Ready"]
                 /\ ready_queue' = Append(ready_queue, w)
                 /\ UNCHANGED <<timers, current, cpu, pc, holds, mutex, sem>>
       /\ op'.name \in {"wait_enqueue", "wait_no_sched_enqueue"} =>
            condvar'.wait_queue = Append(condvar.wait_queue, op'.task)
    ]_vars

\* A signal has just woken the first of several waiters.
C5_Witness ==
    /\ op.name = "signal"
    /\ op.woken # None
    /\ condvar.wait_queue # <<>>
    /\ task_status[op.woken] = "Ready"
    /\ ready_queue # <<>>
    /\ ready_queue[Len(ready_queue)] = op.woken

\* Task t is inside wait_with_mutex and has not yet come back from its
\* block_current_and_run_next.
InWait(t) == pc[t] \in {"cv_block", "cv_lock"}

\* C6: a task inside wait_with_mutex that sits in the condvar wait queue does
\* not hold the mutex, and at the moment wait_with_mutex returns the mutex is
\* locked and the returning task is its one holder.
C6_WaitReleasesAndReacquires ==
    /\ \A t \in Tasks :
          (InWait(t) /\ t \in SeqToSet(condvar.wait_queue)) => t \notin holds
    /\ op.name = "wait_with_mutex_return" =>
          /\ mutex.locked
          /\ holds = {op.task}
          /\ pc[op.task] = "user"
          /\ op.task \notin SeqToSet(condvar.wait_queue)

\* A task returns from wait_with_mutex after it had to block on the mutex,
\* which another task held when it was woken.
C6_Witness ==
    /\ op.name = "wait_with_mutex_return"
    /\ op.blocked
    /\ holds = {op.task}

\* C7: between its mutex.unlock() and its block_current_and_run_next() the
\* waiter is the task the hart executes, so no other task runs before it is in
\* the wait queue; a waiter that is blocked in wait_with_mutex is in the wait
\* queue, where every signal finds it; and a signal makes the waiter at the
\* head Ready and moves every other waiter one place towards the head.
C7_NoLostWakeup ==
    /\ [](\A t \in Tasks :
            /\ pc[t] \in {"cv_enqueue", "cv_block"} => cpu = t
            /\ (pc[t] = "cv_lock" /\ task_status[t] = "Blocked") =>
                   t \in SeqToSet(condvar.wait_queue))
    /\ [][op'.name = "signal" =>
            \A t \in SeqToSet(condvar.wait_queue) :
               IF Position(condvar.wait_queue, t) = 1
               THEN /\ task_status'[t] = "Ready"
                    /\ t \in SeqToSet(ready_queue')
               ELSE /\ t \in SeqToSet(condvar'.wait_queue)
                    /\ Position(condvar'.wait_queue, t)
                          = Position(condvar.wait_queue, t) - 1
       ]_vars

\* A task that took the mutex after the waiter released it has signalled, and
\* the waiter, which was in the wait queue, is Ready.
C7_Witness ==
    /\ op.name = "signal"
    /\ op.woken # None
    /\ pc[op.woken] = "cv_lock"
    /\ task_status[op.woken] = "Ready"
    /\ op.task \in holds

(***************************************************************************)
(* Properties of the mutex.                                                *)
(***************************************************************************)
\* Tasks unlock() has passed the lock to and that have not yet returned from
\* lock().
HandedOver ==
    {t \in Tasks : /\ pc[t] \in {"lock_ret", "cv_lock_ret"}
                   /\ t \notin SeqToSet(mutex.wait_queue)}

\* C8: at most one task holds the mutex, counting a task the lock was handed
\* to by unlock(); whenever a task holds it or waits for it the lock is marked
\* locked.
C8_MutualExclusion ==
    /\ Cardinality(holds \cup HandedOver) <= 1
    /\ (holds \cup HandedOver # {}) => mutex.locked
    /\ mutex.wait_queue # <<>> => mutex.locked

\* unlock() has just handed the lock to the head of the wait queue while
\* another task still waits.
C8_Witness ==
    /\ op.name = "unlock"
    /\ op.woken # None
    /\ HandedOver = {op.woken}
    /\ holds = {}
    /\ mutex.wait_queue # <<>>

\* C9: a task blocked in lock() is woken and returns from lock() holding the
\* mutex, and unlock() wakes the waiters one at a time from the head of the
\* wait queue, which they entered at the tail.
C9_LockReturns ==
    /\ \A t \in Tasks : (pc[t] = "lock_ret") ~> (pc[t] = "user" /\ t \in holds)
    /\ [][ /\ (op'.name = "unlock" /\ mutex.wait_queue # <<>>) =>
                /\ op'.woken = Head(mutex.wait_queue)
                /\ mutex'.wait_queue = Tail(mutex.wait_queue)
                /\ task_status' =
                      [task_status EXCEPT ![Head(mutex.wait_queue)] = "Ready"]
                /\ ready_queue' = Append(ready_queue, Head(mutex.wait_queue))
           /\ op'.name = "lock_block" =>
                mutex'.wait_queue = Append(mutex.wait_queue, op'.task)
       ]_vars

\* A task that blocked in lock() behind another waiter has returned from it.
C9_Witness ==
    /\ op.name = "lock_return"
    /\ op.blocked
    /\ op.task \in holds
    /\ mutex.wait_queue # <<>>

(***************************************************************************)
(* Properties of the semaphore.                                            *)
(***************************************************************************)
\* C10: a down() passes only when the count was positive, and otherwise
\* blocks its caller at the tail of the wait queue; before the first up() no
\* more downs have passed than the initial count; an up() issued while tasks
\* are blocked wakes exactly the head of the wait queue, which becomes Ready
\* at the tail of the ready queue; and a task woken this way is fetched and
\* run later.
C10_SemaphoreCounts ==
    /\ [](~hist.up_seen => hist.passes <= hist.sem_init)
    /\ [][ /\ op'.name = "down_pass" =>
                /\ sem.count > 0
                /\ sem'.count = sem.count - 1
                /\ UNCHANGED <<ready_queue, task_status, current, cpu>>
                /\ sem'.wait_queue = sem.wait_queue
           /\ op'.name = "down_block" =>
                /\ sem.count <= 0
                /\ sem'.wait_queue = Append(sem.wait_queue, op'.task)
                /\ task_status' = [task_status EXCEPT ![op'.task] = "Blocked"]
                /\ cpu' = None
                /\ ready_queue' = ready_queue
           /\ op'.name = "up" =>
                IF sem.wait_queue # <<>>
                THEN LET w == Head(sem.wait_queue) IN
                     /\ op'.woken = w
                     /\ sem'.wait_queue = Tail(sem.wait_queue)
                     /\ task_status' = [task_status EXCEPT ![w] = "Ready"]
                     /\ ready_queue' = Append(ready_queue, w)
                ELSE /\ op'.woken = None
                     /\ UNCHANGED <<ready_queue, task_status>>
                     /\ sem'.wait_queue = sem.wait_queue
       ]_vars
    /\ \A t \in Tasks :
          (pc[t] = "down_ret" /\ task_status[t] = "Ready") ~>
              (op.name = "run_tasks" /\ op.task = t)

\* An up() has woken the longest-blocked of two tasks blocked in down().
C10_Witness ==
    /\ op.name = "up"
    /\ op.woken # None
    /\ sem.wait_queue # <<>>
    /\ task_status[op.woken] = "Ready"
    /\ ready_queue[Len(ready_queue)] = op.woken

(***************************************************************************)
(* Properties of the semaphore's bookkeeping.                              *)
(***************************************************************************)
\* Tasks blocked in down(): they called block_current_and_run_next and have
\* not been woken.
BlockedInDown == {t \in Tasks : pc[t] = "down_ret" /\ task_status[t] = "Blocked"}

\* C11: on a semaphore created with a non-negative count, the length of the
\* wait queue is max(0, -count): a negative count is the number of tasks
\* blocked in down(), which are the tasks in the wait queue, each once, and the
\* wait queue is empty whenever the count is not negative.
C11_QueueLengthIsNegativeCount ==
    /\ hist.sem_init >= 0
    /\ Len(sem.wait_queue) = (IF sem.count < 0 THEN -sem.count ELSE 0)
    /\ SeqToSet(sem.wait_queue) = BlockedInDown
    /\ Cardinality(BlockedInDown) = Len(sem.wait_queue)

\* Two tasks are blocked on the semaphore and the count is -2.
C11_Witness ==
    /\ sem.count = -2
    /\ Len(sem.wait_queue) = 2
    /\ op.name = "down_block"

(***************************************************************************)
(* Properties of the timer interrupt.                                      *)
(***************************************************************************)
\* C12: a timer interrupt taken while X is Running re-arms the trigger from
\* the current time, wakes the expired sleepers and then suspends X: X becomes
\* Ready and is the tail of the ready queue, behind every task that check_timer
\* woke, which are behind the tasks that were queued before; the hart is back in
\* the idle loop, and the task it runs next is the head of the ready queue,
\* which is X only when X is alone in the queue.
C12_TimerInterruptOrder ==
    /\ [][op'.name = "timer_interrupt" =>
            LET X == op'.task IN
            /\ task_status[X] = "Running"
            /\ current = X
            /\ op'.next_trigger = time + CLOCK_FREQ \div TICKS_PER_SEC
            /\ task_status'[X] = "Ready"
            /\ ready_queue' = ready_queue \o op'.woken \o <<X>>
            /\ \A i \in 1..Len(op'.woken) : task_status'[op'.woken[i]] = "Ready"
            /\ current' = None
            /\ cpu' = None
            /\ (Head(ready_queue') = X) <=> (ready_queue' = <<X>>)
       ]_vars
    /\ [][(cpu = None /\ cpu' # None) =>
            /\ ready_queue # <<>>
            /\ cpu' = Head(ready_queue)
            /\ current' = cpu'
            /\ ready_queue' = Tail(ready_queue)
            /\ task_status'[cpu'] = "Running"
       ]_vars

\* X was preempted while another task waited in the ready queue and a third
\* one's sleep had expired: the queue is now that task, the sleeper, X.
C12_Witness ==
    /\ op.name = "timer_interrupt"
    /\ Len(op.woken) = 1
    /\ Len(ready_queue) = 3
    /\ ready_queue[2] = op.woken[1]
    /\ ready_queue[3] = op.task

InWaitQueue ==
    SeqToSet(mutex.wait_queue) \cup SeqToSet(sem.wait_queue)
        \cup SeqToSet(condvar.wait_queue)

\* C14 as stated: in every state, also between the statements of
\* wait_with_mutex and wait_no_sched, every task in a wait queue is Blocked.
C14_WaitQueueIsBlocked ==
    \A t \in InWaitQueue : task_status[t] = "Blocked"

\* The hart is in the idle loop or executes a task in user mode: no kernel
\* path is under way.
KernelPathDone == cpu = None \/ pc[cpu] = "user"

\* C14, amended: whenever no kernel path is under way, in particular whenever
\* the hart switches to another task, every task in a wait queue is Blocked;
\* a task that is in a wait queue without being Blocked is the caller of
\* wait_with_mutex or wait_no_sched between its push_back and its
\* block_current_and_run_next / block_current_task, is still Running, and is
\* the task the hart executes.
C14_WaitQueueIsBlockedAtSwitch ==
    /\ KernelPathDone => \A t \in InWaitQueue : task_status[t] = "Blocked"
    /\ \A t \in InWaitQueue :
          task_status[t] # "Blocked" =>
              /\ pc[t] \in {"cv_block", "ns_block"}
              /\ task_status[t] = "Running"
              /\ cpu = t
              /\ t \in SeqToSet(condvar.wait_queue)

\* wait_with_mutex has pushed its caller, which is still Running, into the
\* wait queue behind a waiter that is Blocked.
C14_Witness ==
    /\ op.name = "wait_enqueue"
    /\ Len(condvar.wait_queue) = 2
    /\ task_status[condvar.wait_queue[1]] = "Blocked"
    /\ task_status[condvar.wait_queue[2]] = "Running"

\* The number of places that hold task t: its occurrences in the ready queue
\* and in the wait queues, and the currently-running slot.
Holders(t) ==
    Occurrences(ready_queue, t) + Occurrences(mutex.wait_queue, t)
        + Occurrences(sem.wait_queue, t) + Occurrences(condvar.wait_queue, t)
        + (IF current = t THEN 1 ELSE 0)

\* C15: a task is held by at most one of the ready queue, one wait queue and
\* the currently-running slot, and appears there at most once; in particular
\* timer expiry, also with two timer entries for the same task, does not put a
\* task into the ready queue twice.
C15_SingleOwner == \A t \in Tasks : Holders(t) <= 1

\* The status changes the task model allows.
Transitions ==
    {<<"UnInit", "Ready">>, <<"Ready", "Running">>, <<"Running", "Ready">>,
     <<"Running", "Blocked">>, <<"Running", "Zombie">>, <<"Blocked", "Ready">>}

\* The tasks wakeup_task was applied to in the step that o describes, in
\* call order.
WokenBy(o) ==
    IF o.name = "check_timer" THEN RunTasks(o.popped)
    ELSE IF o.name = "timer_interrupt" THEN o.woken
    ELSE IF o.name \in {"signal", "up", "unlock", "wait_unlock"} /\ o.woken # None
         THEN <<o.woken>>
    ELSE <<>>

\* C16: every status change is one of the allowed transitions, so a Zombie
\* never changes status again, and every call of wakeup_task is applied to a
\* task that is Blocked when the call is made (it is Blocked before the step
\* and no earlier call of the same step has woken it).
C16_StatusTransitions ==
    [][ /\ \A t \in Tasks :
             task_status'[t] # task_status[t] =>
                 <<task_status[t], task_status'[t]>> \in Transitions
        /\ LET w == WokenBy(op') IN
           \A i \in 1..Len(w) :
              /\ task_status[w[i]] = "Blocked"
              /\ \A j \in 1..(i - 1) : w[j] # w[i]
      ]_vars

(***************************************************************************)
(* Properties of the pid registry.                                         *)
(***************************************************************************)
\* C17: remove_from_pid2process(pid) panics when pid is not registered and
\* changes nothing then; on a registered pid it does not panic, removes that
\* entry and leaves every other entry as it was, after which pid2process(pid)
\* is None; pid2process returns the registered process or None; and as long as
\* nothing has panicked a pid has been removed at most as often as it was
\* inserted, a removal being possible only while the pid is registered.
C17_PidRegistry ==
    /\ [][op'.name = "remove_from_pid2process" =>
            LET pid == op'.pid IN
            IF pid \in DOMAIN pid2pcb
            THEN /\ ~panicked'
                 /\ DOMAIN pid2pcb' = DOMAIN pid2pcb \ {pid}
                 /\ \A k \in DOMAIN pid2pcb' : pid2pcb'[k] = pid2pcb[k]
                 /\ pid2process(pid2pcb', pid) = None
                 /\ hist'.removed[pid] = hist.removed[pid] + 1
            ELSE /\ panicked'
                 /\ pid2pcb' = pid2pcb
       ]_vars
    /\ [][op'.name = "pid2process" =>
            op'.ret = (IF op'.pid \in DOMAIN pid2pcb THEN pid2pcb[op'.pid]
                       ELSE None)
       ]_vars
    /\ [](~panicked =>
            \A pid \in Tasks :
               /\ hist.removed[pid] <= hist.inserted[pid]
               /\ (hist.removed[pid] = hist.inserted[pid] =>
                      pid \notin DOMAIN pid2pcb))

\* A registered pid was removed while another pid stayed registered, and a
\* lookup of a pid that was removed found nothing.
C17_Witness ==
    /\ op.name = "pid2process"
    /\ op.ret = None
    /\ hist.removed[op.pid] = 1
    /\ \E k \in DOMAIN pid2pcb : k # op.pid
    /\ ~panicked


\* C18: a store/load/instruction fault or page fault, or an illegal
\* instruction, of the running user task does not halt the kernel:
\* trap_handler adds SIGSEGV (faults) or SIGILL (illegal instruction) to the
\* task; the signal being pending, the task exits with the error code of the
\* signal and does not return to user mode; the other tasks keep their status
\* and their place in the ready queue, and the idle loop can run the next one.
C18_FaultStep ==
    \A t \in Tasks :
        (UserMode(t) /\ op'.name = "fault" /\ op'.task = t) =>
            /\ op'.signal = (IF op'.cause \in Faults THEN "SIGSEGV" ELSE "SIGILL")
            /\ op'.cause \in Faults \cup {"IllegalInstruction"}
            /\ signals'[t] = signals[t] \cup {op'.signal}
            /\ ~panicked'
            /\ task_status'[t] = "Zombie"
            /\ pc'[t] = "exited"
            /\ cpu' = None
            /\ exit_code'[t] = <<ErrnoOf(op'.signal)>>
            /\ ready_queue' = ready_queue
            /\ \A u \in Tasks \ {t} :
                  /\ task_status'[u] = task_status[u]
                  /\ signals'[u] = signals[u]
                  /\ exit_code'[u] = exit_code[u]

C18_AfterFault ==
    /\ \A t \in Tasks : signals[t] # {} => (cpu # t /\ task_status[t] = "Zombie")
    /\ (op.name = "fault" /\ ready_queue # <<>>) => ENABLED run_tasks

C18_FaultsExitTheTask == [][C18_FaultStep]_vars /\ []C18_AfterFault

\* A task has exited with the error code of SIGSEGV, another one with that of
\* SIGILL, and a third task has been scheduled after them.
C18_Witness ==
    /\ ~panicked
    /\ op.name = "run_tasks"
    /\ cpu # None
    /\ \E t \in Tasks : exit_code[t] = <<ErrnoOf("SIGSEGV")>>
    /\ \E t \in Tasks : exit_code[t] = <<ErrnoOf("SIGILL")>>


\* The step with which trap_handler enters the syscall of t, and the step
\* with which it writes the result after the syscall has returned.
EcallStep(t) == UserMode(t) /\ op'.name = "ecall" /\ op'.task = t

EcallReturnStep(t) ==
    Running(t) /\ pc[t] = "ecall_ret" /\ op'.name = "ecall_return" /\ op'.task = t

\* C19 as stated: the saved pc is advanced by 4 before the dispatch, and once
\* the syscall has returned the result is in a0 of the current trap context
\* and the task continues at the instruction after the call, whatever the
\* syscall did, a suspension and a replacement of the context included.
C19_ResumesAfterTheCall ==
    [][\A t \in Tasks :
          /\ EcallStep(t) => op'.sepc_at_dispatch = trap_cx[t].sepc + 4
          /\ EcallReturnStep(t) =>
                /\ trap_cx'[t].x10 = AsUsize(trap_local[t].result)
                /\ trap_cx'[t].sepc = hist.ecall_sepc[t] + 4]_vars

\* C19 amended: the saved pc is advanced by 4 before the dispatch; once the
\* syscall has returned the result is in a0 of the trap context that is then
\* current, and the return changes nothing else of it; the task continues at
\* the instruction after the call if the syscall left its context in place
\* (also when the task was suspended in it), and at the saved pc of the new
\* context if the syscall replaced it.
C19_ResultInCurrentContext ==
    [][\A t \in Tasks :
          /\ EcallStep(t) => op'.sepc_at_dispatch = trap_cx[t].sepc + 4
          /\ EcallReturnStep(t) =>
                /\ trap_cx'[t] = [trap_cx[t] EXCEPT
                                     !.x10 = AsUsize(trap_local[t].result)]
                /\ trap_local[t].cx = trap_cx[t].ppn =>
                      trap_cx'[t].sepc = hist.ecall_sepc[t] + 4]_vars

\* A task returns from a syscall in which it was suspended (sys_yield, the
\* only one that returns 0) and continues after the call, while another task
\* is back in user mode with the result of a syscall that replaced its
\* context in a0.
C19_Witness ==
    /\ op.name = "ecall_return"
    /\ op.result = 0
    /\ pc[op.task] = "user"
    /\ trap_cx[op.task].sepc = hist.ecall_sepc[op.task] + 4
    /\ \E u \in Tasks \ {op.task} :
          /\ pc[u] = "user"
          /\ trap_cx[u].ppn > 1
          /\ trap_cx[u].x10 = AsUsize(-1)


\* The cells the last operation is recorded with, and the cells it holds
\* after the first i of them.
CellsOf(o) == IF "cells" \in DOMAIN o THEN o.cells ELSE <<>>

HeldAfter(tr, i) ==
    {tr[j].cell : j \in {j \in 1..i :
        /\ tr[j].a = "acquire"
        /\ \A k \in (j + 1)..i : ~(tr[k].a = "release" /\ tr[k].cell = tr[j].cell)}}

Acquires(tr) == {i \in 1..Len(tr) : tr[i].a = "acquire"}

TimerEntries(t) == {e \in BagToSet(timers) : e.task = t}

\* Task t is in the ready queue once and nowhere else; in the wait queue q
\* once and nowhere else; in the timer heap and nowhere else; nowhere.
OnlyInReadyQueue(t) ==
    /\ Occurrences(ready_queue, t) = 1
    /\ t \notin InWaitQueue
    /\ TimerEntries(t) = {}

OnlyInWaitQueue(t, q) ==
    /\ Occurrences(q, t) = 1
    /\ Occurrences(mutex.wait_queue, t) + Occurrences(sem.wait_queue, t)
          + Occurrences(condvar.wait_queue, t) = 1
    /\ Occurrences(ready_queue, t) = 0
    /\ TimerEntries(t) = {}

OnlyInTimers(t) ==
    /\ TimerEntries(t) # {}
    /\ t \notin InWaitQueue
    /\ Occurrences(ready_queue, t) = 0

InNoStructure(t) ==
    /\ Occurrences(ready_queue, t) = 0
    /\ t \notin InWaitQueue
    /\ TimerEntries(t) = {}

\* What holds of task t when the hart has switched away from it in the step
\* that o describes.
PlacedFor(o, t) ==
    /\ current # t
    /\ CASE o.name \in {"yield", "timer_interrupt", "lock_spin"} ->
                task_status[t] = "Ready" /\ OnlyInReadyQueue(t)
         [] o.name = "lock_block" ->
                task_status[t] = "Blocked" /\ OnlyInWaitQueue(t, mutex.wait_queue)
         [] o.name = "down_block" ->
                task_status[t] = "Blocked" /\ OnlyInWaitQueue(t, sem.wait_queue)
         [] o.name \in {"wait_block", "wait_no_sched_schedule"} ->
                task_status[t] = "Blocked" /\ OnlyInWaitQueue(t, condvar.wait_queue)
         [] o.name = "sleep" ->
                task_status[t] = "Blocked" /\ OnlyInTimers(t)
         [] o.name = "exit" ->
                task_status[t] = "Zombie" /\ InNoStructure(t)
         [] OTHER -> FALSE

\* C21: whenever the hart switches away from a task (block on a primitive,
\* timer preemption, yield, exit), the status of the task has been changed
\* and the task is in the structure of that path, and in no other: the ready
\* queue for yield and preemption, the wait queue of the primitive for a
\* block, none for exit.  In wait_with_mutex no other task runs between the
\* unlock and the switch, at which the caller is in the wait queue of the
\* condition variable and Blocked.
C21_SwitchStep ==
    \A t \in Tasks : (cpu = t /\ cpu' # t) => PlacedFor(op, t)'

C21_NoRunInBetween ==
    \A t \in Tasks : pc[t] \in {"cv_enqueue", "cv_block"} => cpu = t

C21_PlacedBeforeSwitch == [][C21_SwitchStep]_vars /\ []C21_NoRunInBetween

\* wait_with_mutex has switched away from its caller, which is Blocked and in
\* the wait queue of the condition variable, while one task is in the ready
\* queue after a yield or a preemption, and one has exited.
C21_Witness ==
    /\ op.name = "wait_block"
    /\ cpu = None
    /\ task_status[op.task] = "Blocked"
    /\ op.task \in SeqToSet(condvar.wait_queue)
    /\ \E u \in Tasks : task_status[u] = "Zombie"
    /\ \E u \in Tasks : task_status[u] = "Ready" /\ pc[u] = "user"


\* C22: for every pair of expire_ms values of the machine word, the entry
\* with the smaller expire_ms compares greater, entries with equal expire_ms
\* compare equal, and the comparison does not overflow.
C22_AscendingForAllWords ==
    op.name = "cmp" =>
        /\ ~op.overflows
        /\ op.a < op.b => op.ret = "Greater"
        /\ op.a = op.b => op.ret = "Equal"
        /\ op.a > op.b => op.ret = "Less"


\* The queue q without the task.
Without(q, task) == SelectSeq(q, LAMBDA x : x # task)

\* C23: after remove(task) the task is not in the ready queue, however often
\* it was added before; the other tasks stay in their relative order, and a
\* remove of a task that is not in the queue changes nothing.
C23_RemoveStep ==
    (op'.name = "remove" /\ op' # op) =>
        /\ op'.task \notin SeqToSet(ready_queue')
        /\ Without(ready_queue', op'.task) = Without(ready_queue, op'.task)
        /\ op'.task \notin SeqToSet(ready_queue) => ready_queue' = ready_queue

C23_RemovedTaskIsGone == [][C23_RemoveStep]_vars


\* C24: wait_no_sched appends its caller to the tail of the wait queue of the
\* condition variable and marks it Blocked without a context switch: the
\* ready queue and the other tasks are as before and the caller is the task
\* the hart executes when the call returns; a signal wakes whichever task is
\* at the head of the wait queue, so this caller in its turn, whether the
\* waiters before and after it came through wait_no_sched or wait_with_mutex.
C24_WaitNoSchedStep ==
    /\ op'.name = "wait_no_sched_enqueue" =>
          /\ cpu = op'.task
          /\ condvar'.wait_queue = Append(condvar.wait_queue, op'.task)
          /\ UNCHANGED <<ready_queue, task_status, current, cpu>>
    /\ op'.name = "wait_no_sched_return" =>
          /\ cpu = op'.task
          /\ cpu' = op'.task
          /\ condvar.wait_queue # <<>>
          /\ condvar.wait_queue[Len(condvar.wait_queue)] = op'.task
          /\ task_status' = [task_status EXCEPT ![op'.task] = "Blocked"]
          /\ UNCHANGED <<ready_queue, condvar, mutex, holds>>
    /\ op'.name = "signal" =>
          \A t \in SeqToSet(condvar.wait_queue) :
              /\ (op'.woken = t) = (condvar.wait_queue[1] = t)
              /\ op'.woken = t =>
                    /\ task_status'[t] = "Ready"
                    /\ ready_queue' = Append(ready_queue, t)
              /\ op'.woken # t =>
                    /\ task_status'[t] = task_status[t]
                    /\ Position(condvar'.wait_queue, t)
                          = Position(condvar.wait_queue, t) - 1

C24_WaitNoSched == [][C24_WaitNoSchedStep]_vars

\* A signal has woken a task that waited through wait_no_sched and was at the
\* head of the wait queue; a task that came later through wait_with_mutex is
\* still waiting.
C24_Witness ==
    /\ op.name = "signal"
    /\ op.woken # None
    /\ pc[op.woken] = "user"
    /\ task_status[op.woken] = "Ready"
    /\ ready_queue # <<>>
    /\ ready_queue[Len(ready_queue)] = op.woken
    /\ condvar.wait_queue # <<>>
    /\ pc[condvar.wait_queue[1]] = "cv_lock"

====
